---- MODULE Spec2Model ----
(***************************************************************************)
(* Doubly-linked list of "algorithm with c/dlist.c": dlist_init,           *)
(* dlist_destroy, dlist_ins_next, dlist_ins_prev and dlist_remove over a   *)
(* heap of DListElmt blocks handed out by malloc and returned by free.     *)
(***************************************************************************)
EXTENDS Integers, Sequences, FiniteSets, TLC

\* ------------------------------------------------------------------ bounds
MaxNodes == 3
NumPayloads == 2

\* ------------------------------------------------------------- value sets
NULL == 0
Nodes == 1..MaxNodes
Ptr == {NULL} \cup Nodes
Payloads == 1..NumPayloads
Callbacks == {NULL, 1}

\* A DListElmt block: data, prev, next.
DListElmt == [data : Payloads \cup {NULL}, prev : Ptr, next : Ptr]

\* What the model stores for a block that is not allocated (its contents are
\* not program state; malloc chooses the contents of a fresh block).
NoBlock == [data |-> NULL, prev |-> NULL, next |-> NULL]

\* Contents a fresh block can have when malloc returns it: indeterminate. Two
\* outcomes are kept, a zeroed block and a block whose pointer fields hold a
\* stale non-null address; dlist.c stores to every field before reading it.
Garbage == {[data |-> NULL, prev |-> p, next |-> p] : p \in {NULL, MaxNodes}}

VARIABLES
    list,       \* the DList: size, head, tail, destroy, match
    mem,        \* heap: Nodes -> DListElmt
    allocated,  \* blocks handed out by malloc and not yet freed
    call,       \* the most recent call: operation, element argument, return value,
                \* the caller's *data after it, the calls of list->destroy it made;
                \* of dlist_destroy also the payloads the list held on entry, head
                \* to tail, and whether the list was fresh from dlist_init
    net,        \* since dlist_init: insert calls that returned 0, minus
                \* dlist_remove calls that returned 0
    pc,         \* "idle", or "destroy" while dlist_destroy is in its loop
    title       \* a call of titleToNumber: the argument s, the loop index i, the
                \* local result, whether a signed overflow has happened, and
                \* where the call is ("loop", "returned"; "off": there is none)

vars == <<list, mem, allocated, call, net, pc, title>>

\* The list together with the heap, as the functions of dlist.c see it.
Heap == [list |-> list, mem |-> mem, allocated |-> allocated]

\* ------------------------------------------------------------- dlist_init
dlist_init(h, destroy, match) ==
    [h EXCEPT !.list = [size |-> 0, match |-> match, destroy |-> destroy,
                        head |-> NULL, tail |-> NULL]]

\* ----------------------------------------------------------------- malloc
\* malloc returning new_element: the block becomes allocated, contents garbage.
Malloc(h, new_element, garbage) ==
    [h EXCEPT !.mem[new_element] = garbage,
              !.allocated = @ \cup {new_element}]

\* free(element)
Free(h, element) ==
    [h EXCEPT !.mem[element] = NoBlock,
              !.allocated = @ \ {element}]

\* ---------------------------------------------------------- dlist_ins_next
\* ins_next_first without "list->head->next = NULL".
ins_next_first_no_next(h, new_element) ==
    LET h1 == [h EXCEPT !.list.head = new_element]
        h2 == [h1 EXCEPT !.mem[h1.list.head].prev = NULL]
    IN  [h2 EXCEPT !.list.tail = new_element]

\* The list is empty: the new element becomes head and tail.
ins_next_first(h, new_element) ==
    LET h1 == [h EXCEPT !.list.head = new_element]
        h2 == [h1 EXCEPT !.mem[h1.list.head].prev = NULL]
        h3 == [h2 EXCEPT !.mem[h2.list.head].next = NULL]
    IN  [h3 EXCEPT !.list.tail = new_element]

\* ins_next_link without "element->next = new_element".
ins_next_link_no_forward(h, element, new_element) ==
    LET h1 == [h EXCEPT !.mem[new_element].next = h.mem[element].next]
        h2 == [h1 EXCEPT !.mem[new_element].prev = element]
    IN  IF h2.mem[element].next = NULL
        THEN [h2 EXCEPT !.list.tail = new_element]
        ELSE [h2 EXCEPT !.mem[h2.mem[element].next].prev = new_element]

\* ins_next_link without "element->next->prev = new_element".
ins_next_link_no_back(h, element, new_element) ==
    LET h1 == [h EXCEPT !.mem[new_element].next = h.mem[element].next]
        h2 == [h1 EXCEPT !.mem[new_element].prev = element]
        h3 == IF h2.mem[element].next = NULL
              THEN [h2 EXCEPT !.list.tail = new_element]
              ELSE h2
    IN  [h3 EXCEPT !.mem[element].next = new_element]

\* The list is not empty: link the new element after element.
ins_next_link(h, element, new_element) ==
    LET h1 == [h EXCEPT !.mem[new_element].next = h.mem[element].next]
        h2 == [h1 EXCEPT !.mem[new_element].prev = element]
        h3 == IF h2.mem[element].next = NULL
              THEN [h2 EXCEPT !.list.tail = new_element]
              ELSE [h2 EXCEPT !.mem[h2.mem[element].next].prev = new_element]
    IN  [h3 EXCEPT !.mem[element].next = new_element]

\* dlist_ins_next calling malloc before it checks element.
dlist_ins_next_malloc_first(h, element, data, new_element, garbage) ==
    IF new_element = NULL
    THEN [ret |-> -1, h |-> h, cbs |-> <<>>]
    ELSE IF element = NULL /\ h.list.size # 0
    THEN [ret |-> -1, h |-> Malloc(h, new_element, garbage), cbs |-> <<>>]
    ELSE LET h1 == Malloc(h, new_element, garbage)
             h2 == [h1 EXCEPT !.mem[new_element].data = data]
             h3 == IF h2.list.size = 0
                   THEN ins_next_first(h2, new_element)
                   ELSE ins_next_link(h2, element, new_element)
         IN  [ret |-> 0, h |-> [h3 EXCEPT !.list.size = @ + 1], cbs |-> <<>>]

\* dlist_ins_next with "list->size++" ahead of the call of malloc.
dlist_ins_next_counts_early(h, element, data, new_element, garbage) ==
    IF element = NULL /\ h.list.size # 0
    THEN [ret |-> -1, h |-> h, cbs |-> <<>>]
    ELSE IF new_element = NULL
    THEN [ret |-> -1, h |-> [h EXCEPT !.list.size = @ + 1], cbs |-> <<>>]
    ELSE LET h1 == Malloc(h, new_element, garbage)
             h2 == [h1 EXCEPT !.mem[new_element].data = data]
             h3 == IF h2.list.size = 0
                   THEN ins_next_first(h2, new_element)
                   ELSE ins_next_link(h2, element, new_element)
         IN  [ret |-> 0, h |-> [h3 EXCEPT !.list.size = @ + 1], cbs |-> <<>>]

\* dlist_ins_next refusing a non-NULL element on an empty list.
dlist_ins_next_strict(h, element, data, new_element, garbage) ==
    IF (element = NULL) # (h.list.size = 0)
    THEN [ret |-> -1, h |-> h, cbs |-> <<>>]
    ELSE IF new_element = NULL
    THEN [ret |-> -1, h |-> h, cbs |-> <<>>]
    ELSE LET h1 == Malloc(h, new_element, garbage)
             h2 == [h1 EXCEPT !.mem[new_element].data = data]
             h3 == IF h2.list.size = 0
                   THEN ins_next_first(h2, new_element)
                   ELSE ins_next_link(h2, element, new_element)
         IN  [ret |-> 0, h |-> [h3 EXCEPT !.list.size = @ + 1], cbs |-> <<>>]

\* new_element is what malloc returns if it is called (NULL: it fails). The
\* result's cbs are the calls of list->destroy made (none).
dlist_ins_next(h, element, data, new_element, garbage) ==
    IF element = NULL /\ h.list.size # 0
    THEN [ret |-> -1, h |-> h, cbs |-> <<>>]
    ELSE IF new_element = NULL
    THEN [ret |-> -1, h |-> h, cbs |-> <<>>]
    ELSE LET h1 == Malloc(h, new_element, garbage)
             h2 == [h1 EXCEPT !.mem[new_element].data = data]
             h3 == IF h2.list.size = 0
                   THEN ins_next_first(h2, new_element)
                   ELSE ins_next_link(h2, element, new_element)
         IN  [ret |-> 0, h |-> [h3 EXCEPT !.list.size = @ + 1], cbs |-> <<>>]

\* ---------------------------------------------------------- dlist_ins_prev
ins_prev_first(h, new_element) ==
    LET h1 == [h EXCEPT !.list.head = new_element]
        h2 == [h1 EXCEPT !.mem[h1.list.head].prev = NULL]
        h3 == [h2 EXCEPT !.mem[h2.list.head].next = NULL]
    IN  [h3 EXCEPT !.list.tail = new_element]

\* ins_prev_link without "list->head = new_element".
ins_prev_link_keeps_head(h, element, new_element) ==
    LET h1 == [h EXCEPT !.mem[new_element].prev = h.mem[element].prev]
        h2 == [h1 EXCEPT !.mem[new_element].next = element]
        h3 == IF h2.mem[element].prev = NULL
              THEN h2
              ELSE [h2 EXCEPT !.mem[h2.mem[element].prev].next = new_element]
    IN  [h3 EXCEPT !.mem[element].prev = new_element]

\* The list is not empty: link the new element before element.
ins_prev_link(h, element, new_element) ==
    LET h1 == [h EXCEPT !.mem[new_element].prev = h.mem[element].prev]
        h2 == [h1 EXCEPT !.mem[new_element].next = element]
        h3 == IF h2.mem[element].prev = NULL
              THEN [h2 EXCEPT !.list.head = new_element]
              ELSE [h2 EXCEPT !.mem[h2.mem[element].prev].next = new_element]
    IN  [h3 EXCEPT !.mem[element].prev = new_element]

\* dlist_ins_prev without "list->size++".
dlist_ins_prev_no_count(h, element, data, new_element, garbage) ==
    IF element = NULL /\ h.list.size # 0
    THEN [ret |-> -1, h |-> h, cbs |-> <<>>]
    ELSE IF new_element = NULL
    THEN [ret |-> -1, h |-> h, cbs |-> <<>>]
    ELSE LET h1 == Malloc(h, new_element, garbage)
             h2 == [h1 EXCEPT !.mem[new_element].data = data]
             h3 == IF h2.list.size = 0
                   THEN ins_prev_first(h2, new_element)
                   ELSE ins_prev_link(h2, element, new_element)
         IN  [ret |-> 0, h |-> h3, cbs |-> <<>>]

dlist_ins_prev(h, element, data, new_element, garbage) ==
    IF element = NULL /\ h.list.size # 0
    THEN [ret |-> -1, h |-> h, cbs |-> <<>>]
    ELSE IF new_element = NULL
    THEN [ret |-> -1, h |-> h, cbs |-> <<>>]
    ELSE LET h1 == Malloc(h, new_element, garbage)
             h2 == [h1 EXCEPT !.mem[new_element].data = data]
             h3 == IF h2.list.size = 0
                   THEN ins_prev_first(h2, new_element)
                   ELSE ins_prev_link(h2, element, new_element)
         IN  [ret |-> 0, h |-> [h3 EXCEPT !.list.size = @ + 1], cbs |-> <<>>]

\* ------------------------------------------------------------ dlist_remove
\* remove_head without "list->tail = NULL" when the head becomes NULL.
remove_head_keeps_tail(h, element) ==
    LET h1 == [h EXCEPT !.list.head = h.mem[element].next]
    IN  IF h1.list.head = NULL
        THEN h1
        ELSE [h1 EXCEPT !.mem[h1.mem[element].next].prev = NULL]

\* element is the head: the head moves to element->next.
remove_head(h, element) ==
    LET h1 == [h EXCEPT !.list.head = h.mem[element].next]
    IN  IF h1.list.head = NULL
        THEN [h1 EXCEPT !.list.tail = NULL]
        ELSE [h1 EXCEPT !.mem[h1.mem[element].next].prev = NULL]

\* remove_other without "list->tail = element->prev".
remove_other_keeps_tail(h, element) ==
    LET h1 == [h EXCEPT !.mem[h.mem[element].prev].next = h.mem[element].next]
    IN  IF h1.mem[element].next = NULL
        THEN h1
        ELSE [h1 EXCEPT !.mem[h1.mem[element].next].prev = h1.mem[element].prev]

\* element is not the head: its neighbours are linked to each other.
remove_other(h, element) ==
    LET h1 == [h EXCEPT !.mem[h.mem[element].prev].next = h.mem[element].next]
    IN  IF h1.mem[element].next = NULL
        THEN [h1 EXCEPT !.list.tail = h1.mem[element].prev]
        ELSE [h1 EXCEPT !.mem[h1.mem[element].next].prev = h1.mem[element].prev]

\* dlist_remove that hands the removed data to list->destroy before free.
dlist_remove_destroys(h, element, out) ==
    IF element = NULL \/ h.list.size = 0
    THEN [ret |-> -1, h |-> h, data |-> out, cbs |-> <<>>]
    ELSE LET d  == h.mem[element].data
             h1 == IF element = h.list.head
                   THEN remove_head(h, element)
                   ELSE remove_other(h, element)
             h2 == Free(h1, element)
         IN  [ret |-> 0, h |-> [h2 EXCEPT !.list.size = @ - 1], data |-> d,
              cbs |-> IF h.list.destroy # NULL THEN <<d>> ELSE <<>>]

\* dlist_remove without "free(element)".
dlist_remove_no_free(h, element, out) ==
    IF element = NULL \/ h.list.size = 0
    THEN [ret |-> -1, h |-> h, data |-> out, cbs |-> <<>>]
    ELSE LET d  == h.mem[element].data
             h1 == IF element = h.list.head
                   THEN remove_head(h, element)
                   ELSE remove_other(h, element)
         IN  [ret |-> 0, h |-> [h1 EXCEPT !.list.size = @ - 1], data |-> d,
              cbs |-> <<>>]

\* dlist_remove without "list->size--".
dlist_remove_no_count(h, element, out) ==
    IF element = NULL \/ h.list.size = 0
    THEN [ret |-> -1, h |-> h, data |-> out, cbs |-> <<>>]
    ELSE LET d  == h.mem[element].data
             h1 == IF element = h.list.head
                   THEN remove_head(h, element)
                   ELSE remove_other(h, element)
             h2 == Free(h1, element)
         IN  [ret |-> 0, h |-> h2, data |-> d, cbs |-> <<>>]

\* dlist_remove without the check of dlist_size(list).
dlist_remove_unchecked_size(h, element, out) ==
    IF element = NULL
    THEN [ret |-> -1, h |-> h, data |-> out, cbs |-> <<>>]
    ELSE LET d  == h.mem[element].data
             h1 == IF element = h.list.head
                   THEN remove_head(h, element)
                   ELSE remove_other(h, element)
             h2 == Free(h1, element)
         IN  [ret |-> 0, h |-> [h2 EXCEPT !.list.size = @ - 1], data |-> d,
              cbs |-> <<>>]

\* dlist_remove with "*data = list->head->data".
dlist_remove_head_data(h, element, out) ==
    IF element = NULL \/ h.list.size = 0
    THEN [ret |-> -1, h |-> h, data |-> out, cbs |-> <<>>]
    ELSE LET d  == h.mem[h.list.head].data
             h1 == IF element = h.list.head
                   THEN remove_head(h, element)
                   ELSE remove_other(h, element)
             h2 == Free(h1, element)
         IN  [ret |-> 0, h |-> [h2 EXCEPT !.list.size = @ - 1], data |-> d,
              cbs |-> <<>>]

\* out is the value of the caller's *data before the call; the result's data
\* is its value after the call, its cbs the calls of list->destroy made (none).
dlist_remove(h, element, out) ==
    IF element = NULL \/ h.list.size = 0
    THEN [ret |-> -1, h |-> h, data |-> out, cbs |-> <<>>]
    ELSE LET d  == h.mem[element].data
             h1 == IF element = h.list.head
                   THEN remove_head(h, element)
                   ELSE remove_other(h, element)
             h2 == Free(h1, element)
         IN  [ret |-> 0, h |-> [h2 EXCEPT !.list.size = @ - 1], data |-> d,
              cbs |-> <<>>]

\* ----------------------------------------------------------- dlist_destroy
\* A pass that removes dlist_head(list) instead of dlist_tail(list).
destroy_pass_from_head(h, local) ==
    LET r == dlist_remove(h, h.list.head, local)
    IN  [ret |-> r.ret, h |-> r.h, data |-> r.data,
         cbs |-> r.cbs \o (IF r.ret = 0 /\ h.list.destroy # NULL
                           THEN <<r.data>> ELSE <<>>)]

\* The source spells the callback field "destory" at lines 23 and 26; it is
\* read here as list->destroy, the field dlist_init stores at line 10.
\* One pass of the while loop: remove the tail and hand its data to destroy.
\* The result's cbs are the calls of list->destroy the pass makes, each by the
\* payload it is handed.
destroy_pass(h, local) ==
    LET r == dlist_remove(h, h.list.tail, local)
    IN  [ret |-> r.ret, h |-> r.h, data |-> r.data,
         cbs |-> r.cbs \o (IF r.ret = 0 /\ h.list.destroy # NULL
                           THEN <<r.data>> ELSE <<>>)]

\* No reset: the structure is left as the loop left it.
destroy_reset_skipped(h) == h

\* A reset that clears every field but match.
destroy_reset_keeps_match(h) ==
    [h EXCEPT !.list = [size |-> 0, match |-> h.list.match, destroy |-> NULL,
                        head |-> NULL, tail |-> NULL]]

\* memset(list, 0, sizeof(DList))
destroy_reset(h) ==
    [h EXCEPT !.list = [size |-> 0, match |-> NULL, destroy |-> NULL,
                        head |-> NULL, tail |-> NULL]]

\* ---------------------------------------------------------------- traversal
\* The elements met by following next from p (at most fuel of them).
RECURSIVE Forward(_, _, _)
Forward(m, p, fuel) ==
    IF p = NULL \/ fuel = 0 THEN <<>>
    ELSE <<p>> \o Forward(m, m[p].next, fuel - 1)

\* The elements met by following prev from p (at most fuel of them).
RECURSIVE Backward(_, _, _)
Backward(m, p, fuel) ==
    IF p = NULL \/ fuel = 0 THEN <<>>
    ELSE <<p>> \o Backward(m, m[p].prev, fuel - 1)

Fuel == MaxNodes + 1
Range(s) == {s[i] : i \in 1..Len(s)}
Reverse(s) == [i \in 1..Len(s) |-> s[Len(s) + 1 - i]]

FwdScan(h) == Forward(h.mem, h.list.head, Fuel)
BwdScan(h) == Backward(h.mem, h.list.tail, Fuel)
Members(h) == Range(FwdScan(h)) \cup Range(BwdScan(h))
PayloadSeq(h) ==
    LET f == FwdScan(h) IN [i \in 1..Len(f) |-> h.mem[f[i]].data]

\* Element arguments a caller can pass: NULL or a member; on an empty list any
\* pointer value (the functions do not dereference it then).
ElementArgs(h) == IF h.list.size = 0 THEN Ptr ELSE {NULL} \cup Members(h)

\* What malloc can return: NULL, or a block that is not allocated.
MallocResults(h) == {NULL} \cup (Nodes \ h.allocated)

\* The contents of the block malloc returns (none to choose when it fails).
FreshContents(new_element) == IF new_element = NULL THEN {NoBlock} ELSE Garbage

\* ------------------------------------------------------------------- state
\* The caller's void *data holds Unwritten when dlist_remove is called.
Unwritten == NULL

Call(op, element, out, ret, cbs) ==
    [op |-> op, element |-> element, out |-> out, ret |-> ret, cbs |-> cbs,
     held |-> <<>>, fresh |-> FALSE]

\* No call of titleToNumber is under way.
NoTitle == [s |-> <<>>, i |-> 0, result |-> 0, ub |-> FALSE, pc |-> "off"]

\* Before dlist_init: a DList nothing has been stored to, and an empty heap.
Raw ==
    [list |-> [size |-> 0, match |-> NULL, destroy |-> NULL,
               head |-> NULL, tail |-> NULL],
     mem |-> [n \in Nodes |-> NoBlock],
     allocated |-> {}]

Init ==
    /\ \E destroy \in Callbacks, match \in Callbacks :
          list = dlist_init(Raw, destroy, match).list
    /\ mem = Raw.mem
    /\ allocated = Raw.allocated
    /\ call = Call("dlist_init", NULL, Unwritten, 0, <<>>)
    /\ net = 0
    /\ pc = "idle"
    /\ title = NoTitle

Update(h) ==
    /\ list' = h.list
    /\ mem' = h.mem
    /\ allocated' = h.allocated

Initialize ==
    /\ pc = "idle"
    /\ list.size = 0
    /\ \E destroy \in Callbacks, match \in Callbacks :
          Update(dlist_init(Heap, destroy, match))
    /\ call' = Call("dlist_init", NULL, Unwritten, 0, <<>>)
    /\ net' = 0
    /\ UNCHANGED <<pc, title>>

\* A call dlist_ins_next(list, element, data) in which malloc, if it is
\* called, returns new_element holding garbage.
InsertAfterCall(element, data, new_element, garbage) ==
    /\ pc = "idle"
    /\ LET r == dlist_ins_next(Heap, element, data, new_element, garbage)
       IN  /\ Update(r.h)
           /\ call' = Call("dlist_ins_next", element, Unwritten, r.ret, r.cbs)
           /\ net' = IF r.ret = 0 THEN net + 1 ELSE net
    /\ UNCHANGED <<pc, title>>

InsertAfter ==
    \E element \in ElementArgs(Heap), data \in Payloads,
       new_element \in MallocResults(Heap) :
    \E garbage \in FreshContents(new_element) :
       InsertAfterCall(element, data, new_element, garbage)

\* A call dlist_ins_prev(list, element, data), likewise.
InsertBeforeCall(element, data, new_element, garbage) ==
    /\ pc = "idle"
    /\ LET r == dlist_ins_prev(Heap, element, data, new_element, garbage)
       IN  /\ Update(r.h)
           /\ call' = Call("dlist_ins_prev", element, Unwritten, r.ret, r.cbs)
           /\ net' = IF r.ret = 0 THEN net + 1 ELSE net
    /\ UNCHANGED <<pc, title>>

InsertBefore ==
    \E element \in ElementArgs(Heap), data \in Payloads,
       new_element \in MallocResults(Heap) :
    \E garbage \in FreshContents(new_element) :
       InsertBeforeCall(element, data, new_element, garbage)

\* A call dlist_remove(list, element, &data) with data holding Unwritten.
RemoveCall(element) ==
    /\ pc = "idle"
    /\ LET r == dlist_remove(Heap, element, Unwritten)
       IN  /\ Update(r.h)
           /\ call' = Call("dlist_remove", element, r.data, r.ret, r.cbs)
           /\ net' = IF r.ret = 0 THEN net - 1 ELSE net
    /\ UNCHANGED <<pc, title>>

Remove == \E element \in ElementArgs(Heap) : RemoveCall(element)

\* dlist_destroy is entered.
DestroyCall ==
    /\ pc = "idle"
    /\ pc' = "destroy"
    /\ call' = [Call("dlist_destroy", NULL, Unwritten, 0, <<>>)
                   EXCEPT !.held = PayloadSeq(Heap),
                          !.fresh = (call.op = "dlist_init")]
    /\ UNCHANGED <<list, mem, allocated, net, title>>

\* while (dlist_size(list) > 0): one pass.
DestroyPass ==
    /\ pc = "destroy"
    /\ list.size > 0
    /\ LET r == destroy_pass(Heap, call.out)
       IN  /\ Update(r.h)
           /\ call' = [call EXCEPT !.cbs = @ \o r.cbs, !.out = r.data]
           /\ net' = IF r.ret = 0 THEN net - 1 ELSE net
    /\ UNCHANGED <<pc, title>>

\* The loop is left: memset and return.
DestroyReturn ==
    /\ pc = "destroy"
    /\ ~(list.size > 0)
    /\ Update(destroy_reset(Heap))
    /\ pc' = "idle"
    /\ UNCHANGED <<call, net, title>>

Next ==
    \/ Initialize
    \/ InsertAfter
    \/ InsertBefore
    \/ Remove
    \/ DestroyCall
    \/ DestroyPass
    \/ DestroyReturn

Spec == Init /\ [][Next]_vars

\* dlist_destroy is one sequential function: once called, its loop and its
\* reset run on; the caller's other calls may or may not come.
FairSpec == Spec /\ WF_vars(DestroyPass) /\ WF_vars(DestroyReturn)

\* ------------------------------------------------------------ titleToNumber
\* 171-ExcelSheetColumnNumber.cpp. A character is its code; a title is a
\* sequence of characters.
CharA == 65
Base == 26
Letters == CharA .. (CharA + Base - 1)

\* Titles of every letter up to MaxFullLen characters, and titles of 'A' and
\* 'Z' alone up to MaxTitleLen characters; the empty string is one of them.
MaxFullLen == 2
MaxTitleLen == 7
EdgeLetters == {CharA, CharA + Base - 1}
StringsUpTo(S, n) == UNION {[1..k -> S] : k \in 0..n}
Titles == StringsUpTo(Letters, MaxFullLen) \cup StringsUpTo(EdgeLetters, MaxTitleLen)

\* int is 32 bits wide.
IntMax == 2147483647
IntMin == -IntMax - 1

\* The loop body with "s[i] - 'A'" for "s[i] - 'A' + 1".
accumulate_zero_based(result, c) == result * Base + (c - CharA)

\* result * 26 + (s[i] - 'A' + 1)
accumulate(result, c) == result * Base + (c - CharA + 1)

\* The loop body leaves the range of int (result is not negative here): a
\* signed overflow, which is undefined.
Overflows(result, c) == result > (IntMax - (c - CharA + 1)) \div Base

\* What result may hold once a signed overflow has happened: any int; these
\* stand for them.
AnyInt == {IntMin, -1, 0, IntMax}

\* titleToNumber(s) is called.
TitleInit ==
    /\ \E s \in Titles :
          title = [s |-> s, i |-> 0, result |-> 0, ub |-> FALSE, pc |-> "loop"]
    /\ list = Raw.list
    /\ mem = Raw.mem
    /\ allocated = Raw.allocated
    /\ call = Call("none", NULL, Unwritten, 0, <<>>)
    /\ net = 0
    /\ pc = "idle"

\* for (int i = 0; i < s.size(); ++i): one pass. The string is indexed from
\* 1 here, so s[i] of the source is title.s[title.i + 1].
TitleLoopPass ==
    /\ title.pc = "loop"
    /\ title.i < Len(title.s)
    /\ LET c == title.s[title.i + 1]
       IN  IF title.ub \/ Overflows(title.result, c)
           THEN \E x \in AnyInt :
                   title' = [title EXCEPT !.result = x, !.ub = TRUE, !.i = @ + 1]
           ELSE title' = [title EXCEPT !.result = accumulate(title.result, c),
                                       !.i = @ + 1]
    /\ UNCHANGED <<list, mem, allocated, call, net, pc>>

\* The loop is left: return result.
TitleReturn ==
    /\ title.pc = "loop"
    /\ ~(title.i < Len(title.s))
    /\ title' = [title EXCEPT !.pc = "returned"]
    /\ UNCHANGED <<list, mem, allocated, call, net, pc>>

TitleNext ==
    \/ TitleLoopPass
    \/ TitleReturn

TitleSpec == TitleInit /\ [][TitleNext]_vars

\* ------------------------------------------------------------------ claims
InsertOps == {"dlist_ins_next", "dlist_ins_prev"}

\* C1: the linkage is well formed in every state: head.prev and tail.next are
\* none, next and prev of the members are mutually consistent, and the scan
\* forward from head and the scan backward from tail each visit exactly size
\* elements, the same ones in opposite order.
LinkageWellFormed ==
    LET f == FwdScan(Heap)
        b == BwdScan(Heap)
    IN  /\ list.head # NULL => mem[list.head].prev = NULL
        /\ list.tail # NULL => mem[list.tail].next = NULL
        /\ \A e \in Range(f) \cup Range(b) :
              /\ mem[e].next # NULL => mem[mem[e].next].prev = e
              /\ mem[e].prev # NULL => mem[mem[e].prev].next = e
        /\ Len(f) = list.size
        /\ Len(b) = list.size
        /\ f = Reverse(b)

\* An element has just been inserted between two members of a list.
InsertedInside ==
    /\ call.op = "dlist_ins_prev" /\ call.ret = 0
    /\ list.size >= 3
    /\ mem[call.element].prev # list.head

\* C2: size is the number of insert calls that returned success minus the
\* number of dlist_remove calls that returned success (a call that fails
\* counts for nothing, so it leaves size as it was).
SizeIsNetCount == list.size = net

\* A remove has failed on a list that holds two elements.
FailedCallKeptSize ==
    /\ call.op = "dlist_remove" /\ call.ret = -1
    /\ list.size = 2

\* C3: size is 0 exactly when head and tail are both none; neither is none
\* while size > 0.
EmptyIffNoEnds ==
    /\ list.size = 0 => list.head = NULL /\ list.tail = NULL
    /\ list.size > 0 => list.head # NULL /\ list.tail # NULL
    /\ list.head = NULL /\ list.tail = NULL => list.size = 0

\* The last element has just been removed.
RemovedLast ==
    /\ call.op = "dlist_remove" /\ call.ret = 0
    /\ list.size = 0

\* s with x put at position i, and s without its position i.
InsertAt(s, i, x) == SubSeq(s, 1, i - 1) \o <<x>> \o SubSeq(s, i, Len(s))
RemoveAt(s, i) == SubSeq(s, 1, i - 1) \o SubSeq(s, i + 1, Len(s))

\* The step is a call of op that returned ret.
Returned(op, ret) == pc = "idle" /\ call'.op = op /\ call'.ret = ret

\* The block the step allocated is n, and it allocated and freed no other.
Allocated(n) == n \notin allocated /\ allocated' = allocated \cup {n}

\* From head to tail, h2 is h with the new element n placed at position i and
\* holding data; the other elements keep their order and their payloads.
PlacedAt(h, h2, i, n, data) ==
    LET f == FwdScan(h)
    IN  /\ n \notin Range(f)
        /\ FwdScan(h2) = InsertAt(f, i, n)
        /\ PayloadSeq(h2) = InsertAt(PayloadSeq(h), i, data)

\* The position of element e in the sequence s (0: it is not in s).
IndexOf(s, e) == IF e \in Range(s) THEN CHOOSE i \in 1..Len(s) : s[i] = e ELSE 0

\* An insert into the empty list: the new element is head and tail, alone.
SoleElement(h2, data) ==
    /\ h2.list.size = 1
    /\ h2.list.head # NULL /\ h2.list.head = h2.list.tail
    /\ h2.mem[h2.list.head].prev = NULL
    /\ h2.mem[h2.list.head].next = NULL
    /\ h2.mem[h2.list.head].data = data

\* C4: a successful dlist_ins_next after a member of a non-empty list puts the
\* payload right after that member in the head-to-tail sequence and keeps the
\* rest; the tail becomes the new element exactly when the member was the tail,
\* the head stays. On an empty list with element none the new element becomes
\* head and tail, with prev and next none.
InsertAfterStep ==
    Returned("dlist_ins_next", 0) =>
        /\ allocated' \ allocated # {}
        /\ \A data \in Payloads, new_element \in allocated' \ allocated :
              (\E garbage \in Garbage :
                  InsertAfterCall(call'.element, data, new_element, garbage)) =>
                 IF list.size # 0
                 THEN LET i == IndexOf(FwdScan(Heap), call'.element)
                      IN  /\ i # 0
                          /\ Allocated(new_element)
                          /\ PlacedAt(Heap, Heap', i + 1, new_element, data)
                          /\ list'.size = list.size + 1
                          /\ list'.head = list.head
                          /\ (list'.tail = new_element) <=> (call'.element = list.tail)
                          /\ (call'.element # list.tail) => list'.tail = list.tail
                 ELSE call'.element = NULL =>
                         /\ Allocated(new_element)
                         /\ list'.head = new_element
                         /\ SoleElement(Heap', data)

\* C4: every step is as InsertAfterStep says: a successful dlist_ins_next puts
\* the payload right after element and moves the tail only past the old tail.
InsertAfterPlacesPayload == [][InsertAfterStep]_vars

\* dlist_ins_next has inserted after a member that was not the tail.
InsertedAfterInner ==
    /\ call.op = "dlist_ins_next" /\ call.ret = 0
    /\ list.size >= 3
    /\ mem[call.element].next # list.tail

\* C5: a successful dlist_ins_prev before a member of a non-empty list puts
\* the payload right before that member in the head-to-tail sequence and keeps
\* the rest; the head becomes the new element exactly when the member was the
\* head, the tail stays.
InsertBeforeStep ==
    Returned("dlist_ins_prev", 0) /\ list.size # 0 =>
        /\ allocated' \ allocated # {}
        /\ \A data \in Payloads, new_element \in allocated' \ allocated :
              (\E garbage \in Garbage :
                  InsertBeforeCall(call'.element, data, new_element, garbage)) =>
                 LET i == IndexOf(FwdScan(Heap), call'.element)
                 IN  /\ i # 0
                     /\ Allocated(new_element)
                     /\ PlacedAt(Heap, Heap', i, new_element, data)
                     /\ list'.size = list.size + 1
                     /\ list'.tail = list.tail
                     /\ (list'.head = new_element) <=> (call'.element = list.head)
                     /\ (call'.element # list.head) => list'.head = list.head

\* C5: every step is as InsertBeforeStep says: a successful dlist_ins_prev
\* puts the payload right before element and moves the head only before the
\* old head.
InsertBeforePlacesPayload == [][InsertBeforeStep]_vars

\* dlist_ins_prev has inserted before the head of a list of two.
InsertedBeforeHead ==
    /\ call.op = "dlist_ins_prev" /\ call.ret = 0
    /\ list.size = 3
    /\ mem[call.element].prev = list.head

\* C6: a successful dlist_remove of a member hands back that member's payload,
\* takes one off size and leaves the head-to-tail sequence without the member,
\* the rest in order with their payloads; head changes only if the member was
\* the head, tail only if it was the tail.
RemoveStep ==
    Returned("dlist_remove", 0) =>
        LET i == IndexOf(FwdScan(Heap), call'.element)
        IN  /\ i # 0
            /\ call'.out = mem[call'.element].data
            /\ list'.size = list.size - 1
            /\ FwdScan(Heap') = RemoveAt(FwdScan(Heap), i)
            /\ PayloadSeq(Heap') = RemoveAt(PayloadSeq(Heap), i)
            /\ list'.head # list.head => call'.element = list.head
            /\ list'.tail # list.tail => call'.element = list.tail

\* C6: every step is as RemoveStep says: a successful dlist_remove hands back
\* the payload of element and takes exactly element out of the sequence.
RemoveTakesElementOut == [][RemoveStep]_vars

\* dlist_remove has taken an element out of a list of three and handed back a
\* payload that is not the payload of the head that is left.
RemovedOfThree ==
    /\ call.op = "dlist_remove" /\ call.ret = 0
    /\ list.size = 2
    /\ call.element \notin allocated
    /\ call.out # mem[list.head].data

\* The step leaves the list and every block as they were.
NothingMutated == UNCHANGED <<list, mem, allocated>>

\* The step is an insert call with these arguments and this malloc result.
InsertCall(element, data, new_element, garbage) ==
    \/ InsertAfterCall(element, data, new_element, garbage)
    \/ InsertBeforeCall(element, data, new_element, garbage)

\* C7 as stated: an insert on an empty list with a non-none element returns
\* failure and leaves size 0 and head and tail none.
InsertOnEmptyRejectsElementStep ==
    (pc = "idle" /\ call'.op \in InsertOps /\ list.size = 0 /\ call'.element # NULL) =>
        /\ call'.ret = -1
        /\ list'.size = 0 /\ list'.head = NULL /\ list'.tail = NULL

\* C7 as stated, of every step: an insert on an empty list with a non-none
\* element fails and leaves the list empty.
InsertOnEmptyRejectsElement == [][InsertOnEmptyRejectsElementStep]_vars

\* C7 amended: an insert on an empty list with a non-none element ignores the
\* element: when malloc returns a block the call returns success and the block
\* is the sole element, holding the payload; when malloc fails the call returns
\* failure and mutates nothing.
InsertOnEmptyIgnoresElementStep ==
    (pc = "idle" /\ call'.op \in InsertOps /\ list.size = 0 /\ call'.element # NULL) =>
        \A data \in Payloads, new_element \in MallocResults(Heap) :
           (\E garbage \in FreshContents(new_element) :
               InsertCall(call'.element, data, new_element, garbage)) =>
              IF new_element # NULL
              THEN /\ call'.ret = 0
                   /\ Allocated(new_element)
                   /\ list'.head = new_element
                   /\ SoleElement(Heap', data)
              ELSE call'.ret = -1 /\ NothingMutated

\* C7 amended, of every step: an insert on an empty list ignores a non-none
\* element and fails only when malloc fails.
InsertOnEmptyIgnoresElement == [][InsertOnEmptyIgnoresElementStep]_vars

\* An insert with a non-none element has made the first element of a list.
InsertedFirstDespiteElement ==
    /\ call.op \in InsertOps /\ call.ret = 0
    /\ call.element # NULL
    /\ list.size = 1

\* C8: an insert with element none on a non-empty list returns failure and
\* mutates nothing: size, head, tail and every block are as before, and no
\* block is allocated.
InsertNoneOnNonEmptyStep ==
    (pc = "idle" /\ call'.op \in InsertOps /\ call'.element = NULL /\ list.size # 0) =>
        call'.ret = -1 /\ NothingMutated

\* C8, of every step: an insert with element none on a non-empty list fails
\* and mutates nothing.
InsertNoneOnNonEmptyFails == [][InsertNoneOnNonEmptyStep]_vars

\* An insert with element none has failed on a list of two.
InsertNoneFailed ==
    /\ call.op \in InsertOps /\ call.ret = -1
    /\ call.element = NULL
    /\ list.size = 2

\* C9: dlist_remove with element none, or on a list of size 0, returns failure
\* and mutates nothing: the list and every block are as before, no block is
\* freed, and the caller's *data is not written.
RemoveInvalidStep ==
    (pc = "idle" /\ call'.op = "dlist_remove"
                 /\ (call'.element = NULL \/ list.size = 0)) =>
        call'.ret = -1 /\ NothingMutated /\ call'.out = Unwritten

\* C9, of every step: dlist_remove with element none or on an empty list fails,
\* mutates nothing and does not write *data.
RemoveInvalidFails == [][RemoveInvalidStep]_vars

\* dlist_remove has failed on an empty list for a non-none element.
RemoveOnEmptyFailed ==
    /\ call.op = "dlist_remove" /\ call.ret = -1
    /\ call.element # NULL
    /\ list.size = 0

\* C10: when malloc fails in an insert whose element argument is valid (a
\* member, or the list is empty), the call returns failure and the list and
\* every block are exactly as before.
AllocationFailureStep ==
    (pc = "idle" /\ call'.op \in InsertOps /\ (call'.element # NULL \/ list.size = 0)) =>
        \A data \in Payloads :
           InsertCall(call'.element, data, NULL, NoBlock) =>
              call'.ret = -1 /\ NothingMutated

\* C10, of every step: an insert in which malloc fails returns failure and
\* leaves the list and every block as before.
AllocationFailureIsAllOrNothing == [][AllocationFailureStep]_vars

\* An insert next to a member of a list of two has failed: malloc failed.
InsertFailedOnMalloc ==
    /\ call.op \in InsertOps /\ call.ret = -1
    /\ call.element # NULL
    /\ list.size = 2

\* ------------------------------------------------------------ dlist_destroy
\* While dlist_destroy runs on a list that held the payloads call.held on
\* entry: the list still holds the first size of them, and destroy, if
\* registered, has been called once on each payload taken so far, from the
\* tail towards the head; with no destroy registered nothing is called.
DestructorFollowsTail ==
    pc = "destroy" =>
        LET n == Len(call.held)
            k == list.size
        IN  /\ k <= n
            /\ PayloadSeq(Heap) = SubSeq(call.held, 1, k)
            /\ list.destroy # NULL => call.cbs = Reverse(SubSeq(call.held, k + 1, n))
            /\ list.destroy = NULL => call.cbs = <<>>

\* The callbacks stay registered while the loop runs; the reset happens when
\* the list is empty, and calls nothing.
ResetComesLast ==
    /\ (pc = "destroy" /\ pc' = "destroy") =>
           list'.destroy = list.destroy /\ list'.match = list.match
    /\ (pc = "destroy" /\ pc' = "idle") =>
           list.size = 0 /\ call'.cbs = call.cbs /\ call'.held = call.held

\* C11: dlist_destroy on a list of N elements with destroy registered calls it
\* exactly N times, once on each payload the list held, from tail to head, all
\* before the structure is reset; with no destroy registered it calls nothing.
DestroyCallsDestructorPerPayload ==
    []DestructorFollowsTail /\ [][ResetComesLast]_vars

\* The loop of dlist_destroy has emptied a list of three with destroy
\* registered, holding two different payloads; the reset is still to come.
DestroyedThreeWithDestructor ==
    /\ pc = "destroy" /\ list.size = 0
    /\ list.destroy # NULL
    /\ Len(call.cbs) = 3 /\ call.cbs[1] # call.cbs[3]

\* C12: after dlist_destroy returns, the list is the all-zero sentinel: size 0,
\* head and tail none, and the destroy and match fields none.
DestroyLeavesSentinel ==
    (pc = "idle" /\ call.op = "dlist_destroy") =>
        /\ list.size = 0
        /\ list.head = NULL /\ list.tail = NULL
        /\ list.destroy = NULL /\ list.match = NULL

\* dlist_destroy has returned from a list of two elements that had destroy
\* registered.
DestroyedTwoAndReturned ==
    /\ pc = "idle" /\ call.op = "dlist_destroy"
    /\ Len(call.held) = 2 /\ Len(call.cbs) = 2

\* The step is the return of a dlist_destroy that was called on a list fresh
\* from dlist_init.
DestroyOfFreshReturns == pc = "destroy" /\ pc' = "idle" /\ call.fresh

\* C13 as stated: dlist_destroy on an empty, freshly initialized list leaves
\* every field as dlist_init set it, whatever the callbacks, and calls no
\* callback.
DestroyOnFreshKeepsEveryFieldStep ==
    DestroyOfFreshReturns => list' = list /\ call'.cbs = <<>>

\* C13 as stated, of every step.
DestroyOnFreshKeepsEveryField == [][DestroyOnFreshKeepsEveryFieldStep]_vars

\* dlist_destroy on a list fresh from dlist_init runs no pass of its loop and
\* calls no callback; it leaves size 0 and head and tail none, and no block
\* is touched, but the destroy and match fields become none: the list is as
\* dlist_init set it only when it was given no callbacks.
DestroyOnFreshClearsCallbacksStep ==
    DestroyOfFreshReturns =>
        /\ list.size = 0 /\ list.head = NULL /\ list.tail = NULL
        /\ call.held = <<>>
        /\ list'.size = 0 /\ list'.head = NULL /\ list'.tail = NULL
        /\ list'.destroy = NULL /\ list'.match = NULL
        /\ (list' = list) <=> (list.destroy = NULL /\ list.match = NULL)
        /\ call'.cbs = <<>>
        /\ UNCHANGED <<mem, allocated>>

\* C13, amended, of every step: dlist_destroy on an empty, freshly initialized
\* list calls no callback and keeps size 0, head none and tail none, and it
\* sets the destroy and match fields to none.
DestroyOnFreshClearsCallbacks == [][DestroyOnFreshClearsCallbacksStep]_vars

\* dlist_destroy has returned from a list that was fresh from dlist_init.
DestroyedFreshList ==
    /\ pc = "idle" /\ call.op = "dlist_destroy"
    /\ call.fresh
    /\ list.destroy = NULL /\ list.match = NULL

\* ---------------------------------------------------------------- round trip
\* The first half: dlist_ins_next(list, NULL, x) that succeeds on an empty list
\* changes nothing of the list but size (1) and head and tail (the one new
\* element, which holds x).
RoundTripInsertStep ==
    (pc = "idle" /\ call'.op = "dlist_ins_next" /\ call'.element = NULL
                 /\ call'.ret = 0 /\ list.size = 0) =>
        \A data \in Payloads, new_element \in allocated' \ allocated :
           (\E garbage \in FreshContents(new_element) :
               InsertAfterCall(NULL, data, new_element, garbage)) =>
              /\ list' = [list EXCEPT !.size = 1, !.head = new_element,
                                      !.tail = new_element]
              /\ mem'[new_element].data = data

\* The list is as a successful dlist_ins_next(list, NULL, x) on an empty list
\* has just left it.
JustInsertedIntoEmpty ==
    /\ pc = "idle"
    /\ call.op = "dlist_ins_next" /\ call.element = NULL /\ call.ret = 0
    /\ list.size = 1

\* The second half: dlist_remove(list, head, &data) right after it succeeds,
\* writes x to *data, and puts back size 0 and head and tail none; the
\* callbacks are as they were, and the block is freed.
RoundTripRemoveStep ==
    (JustInsertedIntoEmpty /\ call'.op = "dlist_remove"
                           /\ call'.element = list.head) =>
        /\ call'.ret = 0
        /\ call'.out = mem[list.head].data
        /\ list' = [list EXCEPT !.size = 0, !.head = NULL, !.tail = NULL]
        /\ allocated' = allocated \ {list.head}

\* C14: on an empty initialized list, dlist_ins_next(list, NULL, x) followed
\* right away by dlist_remove(list, head, &data) succeeds, returns x, and
\* restores the empty list: size 0, head and tail none, callbacks unchanged.
InsertThenRemoveRestoresEmpty == [][RoundTripInsertStep /\ RoundTripRemoveStep]_vars

\* The round trip has been made on a list with both callbacks registered: the
\* remove returned a payload and the list is empty again, no block allocated.
RoundTripDone ==
    /\ call.op = "dlist_remove" /\ call.ret = 0
    /\ call.out \in Payloads
    /\ list.size = 0 /\ allocated = {}
    /\ list.destroy # NULL /\ list.match # NULL

\* --------------------------------------------------------------- remove all
\* How many times p occurs in the sequence s.
Count(s, p) == Cardinality({i \in 1..Len(s) : s[i] = p})

\* dlist_remove of any member, be it head, tail or inside, succeeds; the list
\* loses that member and no other, size goes down by one, and the payloads
\* held lose one occurrence of the payload returned and nothing else; when
\* size reaches 0, head and tail are none.
RemoveMemberStep ==
    (pc = "idle" /\ call'.op = "dlist_remove" /\ call'.element \in Members(Heap)) =>
        LET before == PayloadSeq(Heap)
            after  == PayloadSeq(Heap')
        IN  /\ call'.ret = 0
            /\ list'.size = list.size - 1
            /\ Members(Heap') = Members(Heap) \ {call'.element}
            /\ Cardinality(Members(Heap')) = list'.size
            /\ call'.out \in Range(before)
            /\ \A p \in Payloads :
                  Count(after, p) = Count(before, p) - (IF p = call'.out THEN 1 ELSE 0)
            /\ list'.size = 0 => list'.head = NULL /\ list'.tail = NULL

\* C15: from a list of N elements, N calls of dlist_remove that each name a
\* current member, in any order, all succeed and end with size 0 and head and
\* tail none, and the payloads returned are, as a multiset, the payloads the
\* list held: each such call succeeds, takes one member and one occurrence of
\* the payload it returns, and the last one leaves head and tail none.
RemoveAllEmptiesList == [][RemoveMemberStep]_vars

\* dlist_remove has taken a member of a list of three; the two that remain
\* hold different payloads.
RemovedOneOfThree ==
    /\ call.op = "dlist_remove" /\ call.ret = 0
    /\ list.size = 2 /\ net = 2
    /\ mem[list.head].data # mem[list.tail].data

\* ------------------------------------------------------- who calls destroy
\* C16: list->destroy is called only by dlist_destroy: dlist_init, the inserts
\* and dlist_remove call it on nothing, so a payload dlist_remove returned has
\* not been handed to it; and dlist_destroy calls it only on payloads of
\* elements the list still held on entry, at most once per element, so not
\* on a payload removed before.
DestructorOnlyInDestroy ==
    /\ call.op # "dlist_destroy" => call.cbs = <<>>
    /\ call.op = "dlist_destroy" =>
          LET n == Len(call.held)
          IN  /\ Len(call.cbs) + list.size <= n
              /\ \A i \in 1..Len(call.cbs) : call.cbs[i] = call.held[n + 1 - i]

\* dlist_remove has returned a payload from a list that has destroy
\* registered and still holds another element.
RemovedWithDestructorRegistered ==
    /\ pc = "idle"
    /\ call.op = "dlist_remove" /\ call.ret = 0 /\ call.out \in Payloads
    /\ list.destroy # NULL
    /\ list.size = 1

\* ------------------------------------------------------------ node ownership
\* The blocks allocated and not freed are the elements reached from head, and
\* there are size of them; once dlist_destroy has returned there is none.
OwnedAreReachable ==
    /\ allocated = Range(FwdScan(Heap))
    /\ Cardinality(allocated) = list.size
    /\ (pc = "idle" /\ call.op = "dlist_destroy") => allocated = {}

\* A successful insert allocates one block and frees none; a successful
\* dlist_remove, also the one in a pass of dlist_destroy, frees the removed
\* element, which was allocated, and no other; a failed call allocates and
\* frees nothing.
OwnershipStep ==
    /\ (pc = "idle" /\ call'.op \in InsertOps /\ call'.ret = 0) =>
           \E n \in Nodes : Allocated(n)
    /\ (pc = "idle" /\ call'.op = "dlist_remove" /\ call'.ret = 0) =>
           call'.element \in allocated /\ allocated' = allocated \ {call'.element}
    /\ (pc = "idle" /\ call'.op \in InsertOps \cup {"dlist_remove"} /\ call'.ret = -1) =>
           allocated' = allocated
    /\ (pc = "destroy" /\ pc' = "destroy") =>
           list.tail \in allocated /\ allocated' = allocated \ {list.tail}

\* C17: the blocks allocated and not yet freed are exactly the elements
\* reachable from head, size of them; each successful insert allocates exactly
\* one, each successful dlist_remove frees exactly the removed one, a failed
\* call allocates and frees nothing, and after dlist_destroy none is allocated.
NodeOwnershipExact == []OwnedAreReachable /\ [][OwnershipStep]_vars

\* dlist_destroy has returned from a list that held three elements: every
\* block is free again.
DestroyedThreeFreedAll ==
    /\ pc = "idle" /\ call.op = "dlist_destroy"
    /\ Len(call.held) = 3
    /\ allocated = {}

\* -------------------------------------------------------------- termination
\* dlist_destroy enters its loop with the size the list has; each pass finds
\* a tail that is a member, its dlist_remove succeeds, and size goes down by
\* exactly one; the function leaves the loop at size 0 and not before.
DestroyLoopStep ==
    /\ (pc = "idle" /\ pc' = "destroy") => Len(call'.held) = list.size
    /\ (pc = "destroy" /\ pc' = "destroy") =>
           /\ list.size > 0
           /\ list.tail \in Members(Heap)
           /\ net' = net - 1
           /\ list'.size = list.size - 1
           /\ call'.held = call.held
    /\ (pc = "destroy" /\ pc' = "idle") => list.size = 0

\* In the loop, the passes made so far and the size left add up to the size
\* on entry.
PassesAndSizeAddUp == pc = "destroy" => list.size <= Len(call.held)

\* C18: dlist_destroy terminates on every reachable list: its loop makes
\* exactly size passes, the dlist_remove of the tail in each pass succeeds,
\* and size goes down by one per pass until it is 0, when the function returns.
DestroyTerminates ==
    /\ (pc = "destroy") ~> (pc = "idle")
    /\ []PassesAndSizeAddUp
    /\ [][DestroyLoopStep]_vars

\* The loop of dlist_destroy has made its third and last pass on a list of
\* three: size is 0 and the function is about to reset and return.
DestroyLoopRanThreePasses ==
    /\ pc = "destroy"
    /\ Len(call.held) = 3
    /\ list.size = 0 /\ allocated = {}

\* ------------------------------------------------------------ titleToNumber
\* The column number of a title, digit by digit: the letter at position k of
\* n, counted as 1..26, weighs 26^(n - k).
RECURSIVE ColumnNumber(_)
ColumnNumber(s) ==
    IF s = <<>> THEN 0
    ELSE (s[1] - CharA + 1) * Base ^ (Len(s) - 1) + ColumnNumber(Tail(s))

\* The title of a column number: the digits 1..26 of n in base 26.
RECURSIVE TitleOf(_)
TitleOf(n) ==
    IF n = 0 THEN <<>>
    ELSE LET d == ((n - 1) % Base) + 1
         IN  Append(TitleOf((n - d) \div Base), CharA + d - 1)

\* C19: titleToNumber maps a title to its bijective base-26 column number:
\* after i passes result is the number of the first i characters, so 0 for
\* the empty string and 26 * result(s) + (c - 'A' + 1) for s followed by c;
\* A is 1, Z is 26, AA is 27, AB is 28; the title can be read back from the
\* number, so distinct titles have distinct numbers; and for a title of at
\* most 6 letters no pass overflows int.
TitleToNumberIsColumnNumber ==
    title.pc # "off" =>
        /\ ~title.ub => title.result = ColumnNumber(SubSeq(title.s, 1, title.i))
        /\ Len(title.s) <= 6 => ~title.ub /\ title.result \in 0..IntMax
        /\ (title.pc = "returned" /\ ~title.ub) =>
              /\ title.i = Len(title.s)
              /\ TitleOf(title.result) = title.s
              /\ title.s = <<CharA>> => title.result = 1
              /\ title.s = <<CharA + 25>> => title.result = 26
              /\ title.s = <<CharA, CharA>> => title.result = 27
              /\ title.s = <<CharA, CharA + 1>> => title.result = 28

\* titleToNumber has returned for ZZZZZZ, the greatest title of six letters.
ReturnedForSixZ ==
    /\ title.pc = "returned"
    /\ title.s = [k \in 1..6 |-> CharA + 25]
    /\ title.result = 321272406

====
